---------------------------- MODULE Spec2Model ----------------------------
(***************************************************************************)
(* ExZodOs: the router facade (ExZodOsRouter.new), the request validator   *)
(* and the response validator it injects in front of the user's handlers,  *)
(* over a static zod-backed API definition.                                *)
(* Next to it, ExZodOsClient: the axios request config it builds and its    *)
(* classification of errors (isErrorOf).                                   *)
(*                                                                         *)
(* JavaScript values are tagged tuples:                                    *)
(*   <<"undefined">>, <<"null">>, <<"string", s>>, <<"number", n>>,        *)
(*   <<"bigint", n>>, <<"object", <<  <<key, value>>, ...  >> >>           *)
(* A zod parse returns [ok |-> TRUE, out |-> parsed] or, when zod throws   *)
(* a ZodError, [ok |-> FALSE, out |-> <<"undefined">>].                    *)
(***************************************************************************)
EXTENDS Naturals, Sequences, FiniteSets, TLC

VARIABLES
    config,     \* the config object given to ExZodOsRouter.new
    stack,      \* the underlying express router: one entry per registration
    calls,      \* the registration calls the user made, in order
    req,        \* per request: the express.Request (route, params, query, body)
    res,        \* per request: the express.Response (statusCode, json chain)
    pc,         \* per request: "idle", "running", "done"
    idx,        \* per request: position in the matched route's handler list
    trace,      \* per request: what was observed (ghost state for the properties)
    client      \* the ExZodOsClient's call in progress: request, error, check

vars == <<config, stack, calls, req, res, pc, idx, trace, client>>

---------------------------------------------------------------------------
(* JavaScript values *)

Undefined == <<"undefined">>
Null == <<"null">>
Str(s) == <<"string", s>>
Num(n) == <<"number", n>>
BigInt(n) == <<"bigint", n>>
Obj(fields) == <<"object", fields>>
EmptyObject == Obj(<< >>)

IsObject(v) == v[1] = "object"
IsNullish(v) == v = Undefined \/ v = Null
HasKey(o, k) == \E i \in 1..Len(o[2]) : o[2][i][1] = k
Get(o, k) == o[2][CHOOSE i \in 1..Len(o[2]) : o[2][i][1] = k][2]

\* JSON.stringify throws a TypeError on a BigInt (here: at top level or as a
\* field of an object); every other value of the model is serializable.
Serializable(v) ==
    IF IsObject(v)
    THEN \A i \in 1..Len(v[2]) : v[2][i][2][1] # "bigint"
    ELSE v[1] # "bigint"

\* The fixed body of the response validator's catch block.
ErrorBody ==
    Obj(<< <<"status", Str("Internal server error")>>,
           <<"message", Str("Server generated response is out of API spec")>> >>)

---------------------------------------------------------------------------
(* The schema capability: zod's parse, per schema of the API definition *)

Ok(v) == [ok |-> TRUE, out |-> v]
ZodError == [ok |-> FALSE, out |-> Undefined]

NumericStrings == {"7"}

\* z.coerce.number().int(): Number(x), rejected when NaN
CoerceNumber(x) ==
    CASE x[1] = "number" -> Ok(x)
      [] x[1] = "bigint" -> Ok(Num(x[2]))
      [] x[1] = "string" /\ x[2] \in NumericStrings -> Ok(Num(x[2]))
      [] OTHER -> ZodError

\* z.coerce.bigint(): BigInt(x), rejected when it throws
CoerceBigInt(x) ==
    CASE x[1] = "bigint" -> Ok(x)
      [] x[1] = "number" -> Ok(BigInt(x[2]))
      [] x[1] = "string" /\ x[2] \in NumericStrings -> Ok(BigInt(x[2]))
      [] OTHER -> ZodError

\* z.object({}): zod objects strip unknown keys by default, so every object
\* parses to {}; a non-object is a ZodError.
ParseEmptyObject(v) == IF IsObject(v) THEN Ok(EmptyObject) ELSE ZodError

\* z.object({}).optional()
ParseOptionalEmptyObject(v) == IF v = Undefined THEN Ok(Undefined) ELSE ParseEmptyObject(v)

\* z.object({ id: z.coerce.number().int() })
ParsePathId(v) ==
    IF IsObject(v) /\ HasKey(v, "id") /\ CoerceNumber(Get(v, "id")).ok
    THEN Ok(Obj(<< <<"id", CoerceNumber(Get(v, "id")).out>> >>))
    ELSE ZodError

\* z.object({ id: z.number().int(), name: z.string() })
ParseUser(v) ==
    IF IsObject(v) /\ HasKey(v, "id") /\ HasKey(v, "name")
       /\ Get(v, "id")[1] = "number" /\ Get(v, "name")[1] = "string"
    THEN Ok(Obj(<< <<"id", Get(v, "id")>>, <<"name", Get(v, "name")>> >>))
    ELSE ZodError

\* z.object({ message: z.string() })
ParseMessage(v) ==
    IF IsObject(v) /\ HasKey(v, "message") /\ Get(v, "message")[1] = "string"
    THEN Ok(Obj(<< <<"message", Get(v, "message")>> >>))
    ELSE ZodError

\* z.object({ message: z.string() }).nullable().catch(null)
ParseMessageOrNull(v) ==
    IF v = Null \/ ~ParseMessage(v).ok THEN Ok(Null) ELSE ParseMessage(v)

\* z.object({ id: z.coerce.bigint() })
ParseBigId(v) ==
    IF IsObject(v) /\ HasKey(v, "id") /\ CoerceBigInt(Get(v, "id")).ok
    THEN Ok(Obj(<< <<"id", CoerceBigInt(Get(v, "id")).out>> >>))
    ELSE ZodError

\* z.object({ authorization: z.string() })
ParseAuthorization(v) ==
    IF IsObject(v) /\ HasKey(v, "authorization") /\ Get(v, "authorization")[1] = "string"
    THEN Ok(Obj(<< <<"authorization", Get(v, "authorization")>> >>))
    ELSE ZodError

NoSchema == "undefined"
Schemas == {"PathId", "User", "Message", "MessageOrNull", "BigId", "Authorization",
            "Any", "Never"}

\* schema.parse(v)
Parse(schema, v) ==
    CASE schema = "PathId" -> ParsePathId(v)
      [] schema = "User" -> ParseUser(v)
      [] schema = "Message" -> ParseMessage(v)
      [] schema = "MessageOrNull" -> ParseMessageOrNull(v)
      [] schema = "BigId" -> ParseBigId(v)
      [] schema = "Authorization" -> ParseAuthorization(v)
      [] schema = "Any" -> Ok(v)
      [] schema = "Never" -> ZodError

---------------------------------------------------------------------------
(* The API definition (Route Table) *)

METHODS == <<"get", "post", "put", "delete", "patch">>
Methods == {METHODS[i] : i \in 1..Len(METHODS)}

NoDescription == [request |-> [header |-> NoSchema, cookie |-> NoSchema, path |-> NoSchema,
                               query |-> NoSchema, body |-> NoSchema],
                  response |-> [k \in {"200", "404", "500", "default"} |-> NoSchema],
                  defined |-> FALSE]

RouteDescription(h, p, q, b, r200, r404, r500, rdef) ==
    [request |-> [header |-> h, cookie |-> NoSchema, path |-> p, query |-> q, body |-> b],
     response |-> [k \in {"200", "404", "500", "default"} |->
                      CASE k = "200" -> r200 [] k = "404" -> r404
                        [] k = "500" -> r500 [] k = "default" -> rdef],
     defined |-> TRUE]

\* apiDef[path]?.[method] ?? undefined
apiDef(path, method) ==
    CASE path = "/users/:id" /\ method = "get" ->
            RouteDescription("Never", "PathId", NoSchema, NoSchema,
                             "User", "Message", NoSchema, "User")
      [] path = "/users/:id" /\ method = "put" ->
            RouteDescription("Authorization", "PathId", "Any", "User",
                             "User", NoSchema, "PathId", "Never")
      [] path = "/users/:id" /\ method = "patch" ->
            RouteDescription(NoSchema, "PathId", NoSchema, "Message",
                             "MessageOrNull", "Message", "Message", NoSchema)
      [] path = "/users/:id" /\ method = "delete" ->
            RouteDescription(NoSchema, "PathId", NoSchema, NoSchema,
                             "Any", "Message", NoSchema, "Never")
      [] path = "/users" /\ method = "get" ->
            RouteDescription(NoSchema, NoSchema, "PathId", NoSchema,
                             "BigId", NoSchema, "Message", "User")
      [] path = "/users" /\ method = "post" ->
            RouteDescription("Never", NoSchema, NoSchema, "User",
                             "User", "Message", NoSchema, "Never")
      [] path = "/items/:id" /\ method = "get" ->
            RouteDescription(NoSchema, NoSchema, NoSchema, NoSchema,
                             "Message", "Message", NoSchema, NoSchema)
      [] OTHER -> NoDescription

Paths == {"/users/:id", "/users", "/items/:id", "/health"}


---------------------------------------------------------------------------
(* The client: ExZodOsClient's request builder and error classification *)

\* A url of the client is the sequence of its characters
PathUsers == <<"/", "u", "s", "e", "r", "s">>
PathUsersId == PathUsers \o <<"/", ":", "i", "d">>
PathIdId == <<"/", ":", "i", "d", "/", ":", "i", "d">>
PathIdxId == <<"/", ":", "i", "d", "x", "/", ":", "i", "d">>
ClientPaths == {PathUsers, PathUsersId, PathIdId, PathIdxId}

KeyId == <<"i", "d">>
KeyIdx == <<"i", "d", "x">>
KeyName == <<"n", "a", "m", "e">>

\* value.toString() of a path parameter (string | number)
toString(v) ==
    CASE v = Num("7") -> <<"7">>
      [] v = Num("42") -> <<"4", "2">>
      [] v = Str("abc") -> <<"a", "b", "c">>

\* The config's path map: an object, its keys in insertion order
PathMaps ==
    { Obj(<< <<KeyId, Num("7")>> >>),
      Obj(<< <<KeyId, Num("7")>>, <<KeyIdx, Str("abc")>> >>),
      Obj(<< <<KeyIdx, Str("abc")>>, <<KeyId, Num("42")>> >>),
      Obj(<< <<KeyName, Str("abc")>> >>) }

\* s.indexOf(pattern) + 1: the position of the first occurrence, 0 if none
IndexOf(s, pattern) ==
    LET at == {i \in 1..Len(s) : /\ i + Len(pattern) - 1 <= Len(s)
                                 /\ SubSeq(s, i, i + Len(pattern) - 1) = pattern}
    IN  IF at = {} THEN 0 ELSE CHOOSE i \in at : \A j \in at : i <= j

\* String.prototype.replace(pattern, replacement) with a string pattern
Replace(s, pattern, replacement) ==
    LET i == IndexOf(s, pattern)
    IN  IF i = 0 THEN s
        ELSE SubSeq(s, 1, i - 1) \o replacement \o SubSeq(s, i + Len(pattern), Len(s))

RECURSIVE replacePathParams(_, _)
\* Object.keys(path).forEach(key => modifiedUrl = modifiedUrl.replace(`:${key}`, ...))
replacePathParams(url, path) ==
    IF path[2] = << >> THEN url
    ELSE replacePathParams(
             Replace(url, <<":">> \o path[2][1][1], toString(path[2][1][2])),
             Obj(Tail(path[2])))

\* The optional config of a client call; rest is what remains of it after
\* path, header, query and body are taken out
NoConfig == [given |-> FALSE, path |-> Undefined, header |-> Undefined,
             query |-> Undefined, body |-> Undefined, rest |-> EmptyObject]
RestOptions ==
    { EmptyObject,
      Obj(<< <<"timeout", Num("1000")>> >>),
      Obj(<< <<"url", <<"/", "x">>>> >>) }
ClientConfigs ==
    {NoConfig} \cup [given : {TRUE}, path : {Undefined} \cup PathMaps,
                     header : {Undefined}, query : {Undefined},
                     body : {Obj(<< <<"message", Str("hi")>> >>)}, rest : RestOptions]

\* An axios request config; a property that is not set is undefined
NoAxiosConfig == [method |-> "", url |-> << >>, headers |-> Undefined, params |-> Undefined,
                  paramsSerializer |-> Undefined, data |-> Undefined, timeout |-> Undefined]

\* { ...base, ...rest }
Spread(base, rest) ==
    [f \in DOMAIN base |-> IF HasKey(rest, f) THEN Get(rest, f) ELSE base[f]]

buildAxiosConfig(method, path, cfg) ==
    IF ~cfg.given
    THEN [NoAxiosConfig EXCEPT !.method = method, !.url = path]
    ELSE Spread([method |-> method,
                 url |-> IF cfg.path # Undefined
                         THEN replacePathParams(path, cfg.path) ELSE path,
                 headers |-> cfg.header,
                 params |-> cfg.query,
                 paramsSerializer |-> Str("brackets"),
                 data |-> cfg.body,
                 timeout |-> Undefined], cfg.rest)

\* What a client call can reject with: an AxiosError carrying the request's
\* config and, when the server answered, the response; or any other value
AxiosError(axiosConfig, hasResponse, status) ==
    [isAxiosError |-> TRUE, hasConfig |-> TRUE, config |-> axiosConfig,
     hasResponse |-> hasResponse, status |-> status]
NoError == [isAxiosError |-> FALSE, hasConfig |-> FALSE, config |-> NoAxiosConfig,
            hasResponse |-> FALSE, status |-> 0]
OtherErrors ==
    { NoError, [NoError EXCEPT !.isAxiosError = TRUE] }

ErrorStatuses == {404, 500}

isErrorOf(err, method, path, code) ==
    IF ~err.isAxiosError THEN FALSE
    ELSE IF ~err.hasConfig \/ err.config.method # method THEN FALSE
    ELSE IF err.config.url # path THEN FALSE
    ELSE IF ~err.hasResponse \/ err.status # code THEN FALSE
    ELSE TRUE

NoCheck == [made |-> FALSE, method |-> "", path |-> << >>, code |-> 0, result |-> FALSE]
IdleClient == [phase |-> "idle", method |-> "", path |-> << >>, config |-> NoConfig,
               axiosConfig |-> NoAxiosConfig, err |-> NoError, check |-> NoCheck]

---------------------------------------------------------------------------
(* The router facade: ExZodOsRouter.new and the overridden verb methods *)

Configs == [attachResponseValidator : BOOLEAN, skipRequestBodyValidation : BOOLEAN]

UserHandlers == {"h1", "h2"}
HandlerLists == {<<"h1">>, <<"h1", "h2">>, <<"h2", "h1">>}

\* A middleware function. The two validators are closures over the
\* routeDescription found at registration time.
UserHandler(h) == [kind |-> "user", id |-> h, routeDescription |-> NoDescription]
requestValidator(rd) == [kind |-> "requestValidator", id |-> "", routeDescription |-> rd]
responseValidator(rd) == [kind |-> "responseValidator", id |-> "", routeDescription |-> rd]

\* An argument handed to express's registrar: one function, or an array of them
Fn(f) == <<"function", <<f>>>>
Arr(fs) == <<"array", fs>>

RECURSIVE flatten(_)
\* express flattens the handler arguments of router[method](path, ...)
flatten(args) ==
    IF args = << >> THEN << >> ELSE args[1][2] \o flatten(Tail(args))

\* router[method].bind(router) of the underlying express.Router(): the route
\* entry it adds to the router's stack
originalHandlerRegistrar(method, path, args) ==
    [method |-> method, path |-> path, handlers |-> flatten(args)]

UserHandlerArray(handlers) == Arr([i \in 1..Len(handlers) |-> UserHandler(handlers[i])])

\* A facade that injects its middleware whether or not the route is described
RouterMethodAlwaysInjects(cfg, method, path, handlers) ==
    LET routeDescription == apiDef(path, method)
    IN  IF cfg.attachResponseValidator
        THEN <<Fn(requestValidator(routeDescription)),
               Fn(responseValidator(routeDescription)), UserHandlerArray(handlers)>>
        ELSE <<Fn(requestValidator(routeDescription)), UserHandlerArray(handlers)>>

\* A facade that attaches the response validator at the end of the chain
RouterMethodValidatorLast(cfg, method, path, handlers) ==
    LET routeDescription == apiDef(path, method)
    IN  IF ~routeDescription.defined
        THEN <<UserHandlerArray(handlers)>>
        ELSE IF cfg.attachResponseValidator
             THEN <<Fn(requestValidator(routeDescription)), UserHandlerArray(handlers),
                    Fn(responseValidator(routeDescription))>>
             ELSE <<Fn(requestValidator(routeDescription)), UserHandlerArray(handlers)>>

\* A facade that registers the user's handlers in front of its middleware
RouterMethodHandlersFirst(cfg, method, path, handlers) ==
    LET routeDescription == apiDef(path, method)
    IN  IF ~routeDescription.defined
        THEN <<UserHandlerArray(handlers)>>
        ELSE IF cfg.attachResponseValidator
             THEN <<UserHandlerArray(handlers), Fn(requestValidator(routeDescription)),
                    Fn(responseValidator(routeDescription))>>
             ELSE <<UserHandlerArray(handlers), Fn(requestValidator(routeDescription))>>

\* The overriding router[method] = (path, ...handlers) => { ... }: the
\* arguments it hands to originalHandlerRegistrar after the path
RouterMethod(cfg, method, path, handlers) ==
    LET routeDescription == apiDef(path, method)
        userHandlers == UserHandlerArray(handlers)
    IN  IF ~routeDescription.defined
        THEN <<userHandlers>>
        ELSE IF cfg.attachResponseValidator
             THEN <<Fn(requestValidator(routeDescription)),
                    Fn(responseValidator(routeDescription)), userHandlers>>
             ELSE <<Fn(requestValidator(routeDescription)), userHandlers>>

AllRequests == {"r1", "r2"}

IdleReq == [route |-> 0, headers |-> Undefined, params |-> Undefined, query |-> Undefined,
            body |-> Undefined]
IdleRes == [statusCode |-> 200, json |-> << >>]
IdleTrace == [raw |-> IdleReq, applied |-> << >>, nextCalls |-> 0, errorHandlerCalls |-> 0,
              ran |-> << >>, observed |-> << >>, lastSet |-> 0, emits |-> << >>]

NoRequests ==
    /\ req = [r \in AllRequests |-> IdleReq]
    /\ res = [r \in AllRequests |-> IdleRes]
    /\ pc = [r \in AllRequests |-> "idle"]
    /\ idx = [r \in AllRequests |-> 0]
    /\ trace = [r \in AllRequests |-> IdleTrace]

MaxRoutes == 2

\* A call router.get/post/put/delete/patch(path, ...handlers) by the application
Register(method, path, handlers) ==
    /\ Len(stack) < MaxRoutes
    /\ \A r \in AllRequests : pc[r] = "idle"
    /\ stack' = Append(stack, originalHandlerRegistrar(method, path,
                                  RouterMethod(config, method, path, handlers)))
    /\ calls' = Append(calls, [method |-> method, path |-> path, handlers |-> handlers])
    /\ UNCHANGED <<client, config, req, res, pc, idx, trace>>

\* The router right after ExZodOsRouter.new(apiDef, config) returned
InitReg ==
    /\ config \in Configs
    /\ stack = << >>
    /\ calls = << >>
    /\ NoRequests
    /\ client = IdleClient

NextReg == \E method \in Methods, path \in Paths, handlers \in HandlerLists :
              Register(method, path, handlers)

SpecReg == InitReg /\ [][NextReg]_vars

---------------------------------------------------------------------------
(* The request validator (the middleware injected first) *)

\* A catch block that reports the error and then falls through to next()
RejectedButContinues(rq, applied) ==
    [req |-> rq, applied |-> applied, next |-> TRUE, errorHandler |-> TRUE]

\* What one run of requestValidator did: the request as it left it, the slots
\* a parse was applied to, and which of next() and config.errorHandler it called
Validated(rq, applied) ==
    [req |-> rq, applied |-> applied, next |-> TRUE, errorHandler |-> FALSE]
Rejected(rq, applied) ==
    [req |-> rq, applied |-> applied, next |-> FALSE, errorHandler |-> TRUE]

\* requestValidator with the query parsed but the parsed output not assigned
\* back to req.query
RunRequestValidatorKeepsRawQuery(rd, cfg, rq) ==
    LET p1 == IF rd.request.path # NoSchema
              THEN Parse(rd.request.path, rq.params)
              ELSE ParseEmptyObject(rq.params)
        rq1 == [rq EXCEPT !.params = p1.out]
        p2 == IF rd.request.query # NoSchema
              THEN Parse(rd.request.query, rq.query)
              ELSE ParseEmptyObject(rq.query)
        p3 == IF rd.request.body # NoSchema
              THEN Parse(rd.request.body, rq.body)
              ELSE ParseOptionalEmptyObject(rq.body)
        rq3 == [rq1 EXCEPT !.body = p3.out]
    IN  IF ~p1.ok THEN [req |-> rq, applied |-> <<"path">>,
                        next |-> FALSE, errorHandler |-> TRUE]
        ELSE IF ~p2.ok THEN [req |-> rq1, applied |-> <<"path", "query">>,
                             next |-> FALSE, errorHandler |-> TRUE]
        ELSE IF cfg.skipRequestBodyValidation
             THEN [req |-> rq1, applied |-> <<"path", "query">>,
                   next |-> TRUE, errorHandler |-> FALSE]
        ELSE IF ~p3.ok THEN [req |-> rq1, applied |-> <<"path", "query", "body">>,
                             next |-> FALSE, errorHandler |-> TRUE]
        ELSE [req |-> rq3, applied |-> <<"path", "query", "body">>,
              next |-> TRUE, errorHandler |-> FALSE]

\* requestValidator that calls next() as soon as the path has passed
RunRequestValidatorPathOnly(rd, cfg, rq) ==
    LET p1 == IF rd.request.path # NoSchema
              THEN Parse(rd.request.path, rq.params)
              ELSE ParseEmptyObject(rq.params)
        rq1 == [rq EXCEPT !.params = p1.out]
    IN  IF ~p1.ok THEN Rejected(rq, <<"path">>)
        ELSE Validated(rq1, <<"path">>)

\* requestValidator that validates the body whatever the config says
RunRequestValidatorIgnoresSkip(rd, cfg, rq) ==
    LET p1 == IF rd.request.path # NoSchema
              THEN Parse(rd.request.path, rq.params)
              ELSE ParseEmptyObject(rq.params)
        rq1 == [rq EXCEPT !.params = p1.out]
        p2 == IF rd.request.query # NoSchema
              THEN Parse(rd.request.query, rq.query)
              ELSE ParseEmptyObject(rq.query)
        rq2 == [rq1 EXCEPT !.query = p2.out]
        p3 == IF rd.request.body # NoSchema
              THEN Parse(rd.request.body, rq.body)
              ELSE ParseOptionalEmptyObject(rq.body)
        rq3 == [rq2 EXCEPT !.body = p3.out]
    IN  IF ~p1.ok THEN Rejected(rq, <<"path">>)
        ELSE IF ~p2.ok THEN Rejected(rq1, <<"path", "query">>)
        ELSE IF ~p3.ok THEN Rejected(rq2, <<"path", "query", "body">>)
        ELSE Validated(rq3, <<"path", "query", "body">>)

\* requestValidator that also enforces the declared header schema
RunRequestValidatorChecksHeaders(rd, cfg, rq) ==
    LET p0 == IF rd.request.header # NoSchema
              THEN Parse(rd.request.header, rq.headers)
              ELSE Ok(rq.headers)
        p1 == IF rd.request.path # NoSchema
              THEN Parse(rd.request.path, rq.params)
              ELSE ParseEmptyObject(rq.params)
        rq1 == [rq EXCEPT !.params = p1.out]
        p2 == IF rd.request.query # NoSchema
              THEN Parse(rd.request.query, rq.query)
              ELSE ParseEmptyObject(rq.query)
        rq2 == [rq1 EXCEPT !.query = p2.out]
        p3 == IF rd.request.body # NoSchema
              THEN Parse(rd.request.body, rq.body)
              ELSE ParseOptionalEmptyObject(rq.body)
        rq3 == [rq2 EXCEPT !.body = p3.out]
    IN  IF ~p0.ok THEN Rejected(rq, <<"header">>)
        ELSE IF ~p1.ok THEN Rejected(rq, <<"path">>)
        ELSE IF ~p2.ok THEN Rejected(rq1, <<"path", "query">>)
        ELSE IF cfg.skipRequestBodyValidation THEN Validated(rq2, <<"path", "query">>)
        ELSE IF ~p3.ok THEN Rejected(rq2, <<"path", "query", "body">>)
        ELSE Validated(rq3, <<"path", "query", "body">>)

\* requestValidator that validates the query before the path
RunRequestValidatorQueryFirst(rd, cfg, rq) ==
    LET p2 == IF rd.request.query # NoSchema
              THEN Parse(rd.request.query, rq.query)
              ELSE ParseEmptyObject(rq.query)
        rq2 == [rq EXCEPT !.query = p2.out]
        p1 == IF rd.request.path # NoSchema
              THEN Parse(rd.request.path, rq.params)
              ELSE ParseEmptyObject(rq.params)
        rq1 == [rq2 EXCEPT !.params = p1.out]
        p3 == IF rd.request.body # NoSchema
              THEN Parse(rd.request.body, rq.body)
              ELSE ParseOptionalEmptyObject(rq.body)
        rq3 == [rq1 EXCEPT !.body = p3.out]
    IN  IF ~p2.ok THEN Rejected(rq, <<"query">>)
        ELSE IF ~p1.ok THEN Rejected(rq2, <<"query", "path">>)
        ELSE IF cfg.skipRequestBodyValidation THEN Validated(rq1, <<"query", "path">>)
        ELSE IF ~p3.ok THEN Rejected(rq1, <<"query", "path", "body">>)
        ELSE Validated(rq3, <<"query", "path", "body">>)

\* requestValidator: path, then query, then (unless skipped) body; the first
\* ZodError leaves the try block for the catch, which calls config.errorHandler;
\* without one the try block ends in next()
RunRequestValidator(rd, cfg, rq) ==
    LET p1 == IF rd.request.path # NoSchema
              THEN Parse(rd.request.path, rq.params)
              ELSE ParseEmptyObject(rq.params)
        rq1 == [rq EXCEPT !.params = p1.out]
        p2 == IF rd.request.query # NoSchema
              THEN Parse(rd.request.query, rq.query)
              ELSE ParseEmptyObject(rq.query)
        rq2 == [rq1 EXCEPT !.query = p2.out]
        p3 == IF rd.request.body # NoSchema
              THEN Parse(rd.request.body, rq.body)
              ELSE ParseOptionalEmptyObject(rq.body)
        rq3 == [rq2 EXCEPT !.body = p3.out]
    IN  IF ~p1.ok THEN Rejected(rq, <<"path">>)
        ELSE IF ~p2.ok THEN Rejected(rq1, <<"path", "query">>)
        ELSE IF cfg.skipRequestBodyValidation THEN Validated(rq2, <<"path", "query">>)
        ELSE IF ~p3.ok THEN Rejected(rq2, <<"path", "query", "body">>)
        ELSE Validated(rq3, <<"path", "query", "body">>)

---------------------------------------------------------------------------
(* res.json: express's own, and the override the response validator installs *)

StatusCodes == {200, 404, 500}

\* res.statusCode used as a property key of routeDescription.response
ToPropertyKey(statusCode) ==
    CASE statusCode = 200 -> "200"
      [] statusCode = 404 -> "404"
      [] statusCode = 500 -> "500"

\* routeDescription.response[res.statusCode]
ResponseSchema(rd, statusCode) == rd.response[ToPropertyKey(statusCode)]

\* express's res.json(body): JSON.stringify(body), then send with the current
\* status code. The result of a json call: the status code afterwards, the
\* responses sent, and whether the call threw.
ExpressJson(statusCode, body) ==
    IF Serializable(body)
    THEN [statusCode |-> statusCode, threw |-> FALSE,
          sent |-> <<[status |-> statusCode, body |-> body]>>]
    ELSE [statusCode |-> statusCode, threw |-> TRUE, sent |-> << >>]

RECURSIVE CallJson(_, _, _)

\* The catch block of the override: res.status(500), then originalJson with
\* the fixed body; `before` is what the try block had sent when it threw.
CatchJson(originalJson, before) ==
    LET r == CallJson(originalJson, 500, ErrorBody)
    IN  [statusCode |-> r.statusCode, threw |-> r.threw, sent |-> before \o r.sent]

\* The override without its try/catch: a body that fails its schema is sent
\* as the handler gave it
JsonOverrideWithoutCatch(rd, originalJson, statusCode, body) ==
    LET schema == ResponseSchema(rd, statusCode)
        parsed == IF schema # NoSchema THEN Parse(schema, body) ELSE Ok(Undefined)
        parsedBody == IF ~parsed.ok \/ IsNullish(parsed.out) THEN body ELSE parsed.out
    IN  CallJson(originalJson, statusCode, parsedBody)

\* The override with the schema looked up once, by the status code at the
\* time responseValidator ran (200, express's default)
JsonOverrideStatusAtInstall(rd, originalJson, statusCode, body) ==
    LET schema == ResponseSchema(rd, 200)
        parsed == IF schema # NoSchema THEN Parse(schema, body) ELSE Ok(Undefined)
        parsedBody == IF IsNullish(parsed.out) THEN body ELSE parsed.out
        r == CallJson(originalJson, statusCode, parsedBody)
    IN  IF ~parsed.ok THEN CatchJson(originalJson, << >>)
        ELSE IF r.threw THEN CatchJson(originalJson, r.sent)
        ELSE r

\* res.json = function (body) { try { ... } catch { ... } } installed for a
\* route with description rd, over the json chain originalJson
JsonOverride(rd, originalJson, statusCode, body) ==
    LET schema == ResponseSchema(rd, statusCode)
        parsed == IF schema # NoSchema THEN Parse(schema, body) ELSE Ok(Undefined)
        parsedBody == IF IsNullish(parsed.out) THEN body ELSE parsed.out
        r == CallJson(originalJson, statusCode, parsedBody)
    IN  IF ~parsed.ok THEN CatchJson(originalJson, << >>)
        ELSE IF r.threw THEN CatchJson(originalJson, r.sent)
        ELSE r

\* res.json(body) where res.json is the chain of overrides `json` (innermost
\* first) over express's own
CallJson(json, statusCode, body) ==
    IF json = << >>
    THEN ExpressJson(statusCode, body)
    ELSE JsonOverride(json[Len(json)], SubSeq(json, 1, Len(json) - 1), statusCode, body)

\* responseValidator: res.json = override; the json chain afterwards
InstallOverride(rd, json) == Append(json, rd)

\* An override installed on the prototype that all responses share
OverrideJsonOfEveryResponse(responses, r, rd) ==
    [q \in DOMAIN responses |-> [responses[q] EXCEPT !.json = InstallOverride(rd, @)]]

\* The responses after responseValidator ran for request r: res is r's own
\* response object, and only its json property is assigned
OverrideJson(responses, r, rd) ==
    [responses EXCEPT ![r].json = InstallOverride(rd, @)]

---------------------------------------------------------------------------
(* Requests: what express hands to the route's handlers, and the handlers *)

UserExtra == Obj(<< <<"id", Num("7")>>, <<"name", Str("John")>>, <<"admin", Str("yes")>> >>)
MessageBody == Obj(<< <<"message", Str("Please login first")>> >>)
BigBody == Obj(<< <<"id", BigInt("7")>> >>)

\* req.params as express extracts them from the url for the route's path
RawParams(path) ==
    IF path \in {"/users/:id", "/items/:id"}
    THEN {Obj(<< <<"id", Str("7")>> >>), Obj(<< <<"id", Str("abc")>> >>)}
    ELSE {EmptyObject}
\* req.headers: without and with an Authorization header
PlainHeaders == Obj(<< <<"accept", Str("*/*")>> >>)
AuthHeaders == Obj(<< <<"accept", Str("*/*")>>, <<"authorization", Str("Bearer abc")>> >>)
RawHeaders == {PlainHeaders, AuthHeaders}
RawQuery == {EmptyObject, Obj(<< <<"id", Str("7")>> >>)}
RawBody == {Undefined, EmptyObject, UserExtra, <<"string", "abc">>}

\* Bodies a user handler hands to res.json
HandlerBodies == {UserExtra, MessageBody, BigBody}

\* What config.errorHandler(err, req, res) does with the response: nothing,
\* or res.status(code).json(body)
ErrorHandlerBehaviours ==
    {[emit |-> FALSE, status |-> 200, body |-> Undefined]}
    \cup [emit : {TRUE}, status : {404, 500}, body : {MessageBody, EmptyObject}]

MaxEmits == 1

Layers(r) == stack[req[r].route].handlers
Layer(r) == Layers(r)[idx[r]]
AtLayer(r, kind) == pc[r] = "next" /\ idx[r] <= Len(Layers(r)) /\ Layer(r).kind = kind

\* The record of one res.json(body) call; lastSet is the status code the
\* handler set by res.status since the previous res.json call, 0 if it set none
EmitRecord(by, json, statusCode, body, lastSet) ==
    LET out == CallJson(json, statusCode, body)
    IN  [by |-> by, overrides |-> Len(json), statusCode |-> statusCode, body |-> body,
         lastSet |-> lastSet,
         statusAfter |-> out.statusCode, threw |-> out.threw, sent |-> out.sent]

\* express matched the request to route k and starts the route's handlers
Dispatch(r, k, headers, params, query, body) ==
    /\ pc[r] = "idle"
    /\ LET rq == [route |-> k, headers |-> headers, params |-> params, query |-> query,
                  body |-> body]
       IN  /\ req' = [req EXCEPT ![r] = rq]
           /\ trace' = [trace EXCEPT ![r] = [IdleTrace EXCEPT !.raw = rq]]
    /\ res' = [res EXCEPT ![r] = IdleRes]
    /\ pc' = [pc EXCEPT ![r] = "next"]
    /\ idx' = [idx EXCEPT ![r] = 1]
    /\ UNCHANGED <<client, config, stack, calls>>

\* The requestValidator middleware runs; config.errorHandler(err, req, res),
\* when called, behaves as eh
RequestValidator(r, eh) ==
    /\ AtLayer(r, "requestValidator")
    /\ LET out == RunRequestValidator(Layer(r).routeDescription, config, req[r])
           emit == EmitRecord("errorHandler", res[r].json, eh.status, eh.body, eh.status)
           emits == out.errorHandler /\ eh.emit
       IN  /\ out.errorHandler \/ ~eh.emit
           /\ req' = [req EXCEPT ![r] = out.req]
           /\ trace' = [trace EXCEPT ![r] =
                  [@ EXCEPT !.ran = Append(@, "requestValidator"),
                            !.applied = @ \o out.applied,
                            !.nextCalls = IF out.next THEN @ + 1 ELSE @,
                            !.errorHandlerCalls = IF out.errorHandler THEN @ + 1 ELSE @,
                            !.emits = IF emits THEN Append(@, emit) ELSE @]]
           /\ res' = [res EXCEPT ![r].statusCode = IF emits THEN emit.statusAfter ELSE @]
           /\ idx' = [idx EXCEPT ![r] = IF out.next THEN @ + 1 ELSE @]
           /\ pc' = [pc EXCEPT ![r] = IF out.next THEN @ ELSE "done"]
    /\ UNCHANGED <<client, config, stack, calls>>

\* The responseValidator middleware runs: overrides res.json and calls next()
ResponseValidator(r) ==
    /\ AtLayer(r, "responseValidator")
    /\ res' = OverrideJson(res, r, Layer(r).routeDescription)
    /\ trace' = [trace EXCEPT ![r].ran = Append(@, "responseValidator")]
    /\ idx' = [idx EXCEPT ![r] = @ + 1]
    /\ UNCHANGED <<client, config, stack, calls, req, pc>>

\* express invokes the next user handler, which reads the request
HandlerEnter(r) ==
    /\ AtLayer(r, "user")
    /\ pc' = [pc EXCEPT ![r] = "handler"]
    /\ trace' = [trace EXCEPT ![r].ran = Append(@, Layer(r).id),
                              ![r].observed = Append(@, [params |-> req[r].params,
                                  query |-> req[r].query, body |-> req[r].body])]
    /\ UNCHANGED <<client, config, stack, calls, req, res, idx>>

\* The running user handler calls res.status(code)
HandlerStatus(r, code) ==
    /\ pc[r] = "handler"
    /\ res' = [res EXCEPT ![r].statusCode = code]
    /\ trace' = [trace EXCEPT ![r].lastSet = code]
    /\ UNCHANGED <<client, config, stack, calls, req, pc, idx>>

\* The running user handler calls res.json(body); an exception thrown out of
\* res.json ends the handler
HandlerJsonUpTo(r, body, max) ==
    /\ pc[r] = "handler"
    /\ Len(trace[r].emits) < max
    /\ LET emit == EmitRecord("handler", res[r].json, res[r].statusCode, body,
                              trace[r].lastSet)
       IN  /\ res' = [res EXCEPT ![r].statusCode = emit.statusAfter]
           /\ trace' = [trace EXCEPT ![r].emits = Append(@, emit), ![r].lastSet = 0]
           /\ pc' = [pc EXCEPT ![r] = IF emit.threw THEN "done" ELSE @]
    /\ UNCHANGED <<client, config, stack, calls, req, idx>>

HandlerJson(r, body) == HandlerJsonUpTo(r, body, MaxEmits)

\* The running user handler calls next()
HandlerNext(r) ==
    /\ pc[r] = "handler"
    /\ pc' = [pc EXCEPT ![r] = "next"]
    /\ idx' = [idx EXCEPT ![r] = @ + 1]
    /\ UNCHANGED <<client, config, stack, calls, req, res, trace>>

\* The running user handler returns without calling next()
HandlerReturn(r) ==
    /\ pc[r] = "handler"
    /\ pc' = [pc EXCEPT ![r] = "done"]
    /\ UNCHANGED <<client, config, stack, calls, req, res, idx, trace>>

\* next() of the route's last handler leaves the route
RouteEnd(r) ==
    /\ pc[r] = "next"
    /\ idx[r] > Len(Layers(r))
    /\ pc' = [pc EXCEPT ![r] = "done"]
    /\ UNCHANGED <<client, config, stack, calls, req, res, idx, trace>>

\* The registrations the application makes at startup
StartupCalls ==
    << [method |-> "get", path |-> "/users/:id", handlers |-> <<"h1", "h2">>],
       [method |-> "put", path |-> "/users/:id", handlers |-> <<"h1", "h2">>],
       [method |-> "patch", path |-> "/users/:id", handlers |-> <<"h2", "h1">>],
       [method |-> "get", path |-> "/users", handlers |-> <<"h1", "h2">>],
       [method |-> "get", path |-> "/items/:id", handlers |-> <<"h1">>],
       [method |-> "post", path |-> "/users/:id", handlers |-> <<"h1", "h2">>],
       [method |-> "get", path |-> "/health", handlers |-> <<"h2", "h1">>] >>

RECURSIVE RegisterAll(_, _)
RegisterAll(cfg, cs) ==
    IF cs = << >> THEN << >>
    ELSE <<originalHandlerRegistrar(cs[1].method, cs[1].path,
               RouterMethod(cfg, cs[1].method, cs[1].path, cs[1].handlers))>>
         \o RegisterAll(cfg, Tail(cs))

\* The router after ExZodOsRouter.new(apiDef, config) and the startup
\* registrations, serving requests
Init ==
    /\ config \in Configs
    /\ calls = StartupCalls
    /\ stack = RegisterAll(config, StartupCalls)
    /\ NoRequests
    /\ client = IdleClient

Requests == {"r1"}

Next ==
    \E r \in Requests :
        \/ \E k \in 1..Len(stack) :
             \E params \in RawParams(stack[k].path), query \in RawQuery, body \in RawBody :
                Dispatch(r, k, PlainHeaders, params, query, body)
        \/ \E eh \in ErrorHandlerBehaviours : RequestValidator(r, eh)
        \/ ResponseValidator(r)
        \/ HandlerEnter(r)
        \/ \E code \in StatusCodes : HandlerStatus(r, code)
        \/ \E body \in HandlerBodies : HandlerJson(r, body)
        \/ HandlerNext(r)
        \/ HandlerReturn(r)
        \/ RouteEnd(r)

Spec == Init /\ [][Next]_vars

---------------------------------------------------------------------------
(* Handlers that set the status and emit repeatedly *)

MaxRepeatedEmits == 2

\* Routes of StartupCalls with different schemas per status code:
\* get /users/:id and patch /users/:id
EmitRoutes == {1, 3}

NextEmit ==
    \E r \in Requests :
        \/ \E k \in EmitRoutes :
              Dispatch(r, k, PlainHeaders, Obj(<< <<"id", Str("7")>> >>), EmptyObject,
                       MessageBody)
        \/ \E eh \in ErrorHandlerBehaviours : RequestValidator(r, eh)
        \/ ResponseValidator(r)
        \/ HandlerEnter(r)
        \/ \E code \in StatusCodes : HandlerStatus(r, code)
        \/ \E body \in HandlerBodies : HandlerJsonUpTo(r, body, MaxRepeatedEmits)
        \/ HandlerNext(r)
        \/ HandlerReturn(r)
        \/ RouteEnd(r)

SpecEmit == Init /\ [][NextEmit]_vars

---------------------------------------------------------------------------
(* Two requests in flight: express runs one middleware or handler step at a
   time, and the steps of different requests interleave *)

\* Routes of StartupCalls: get, put and patch /users/:id
ConcRoutes == {1, 2, 3}

ConcErrorHandlerBehaviours ==
    {eh \in ErrorHandlerBehaviours : eh.emit => (eh.status = 404 /\ eh.body = MessageBody)}

InitConc ==
    /\ Init
    /\ ~config.skipRequestBodyValidation

NextConc ==
    \E r \in AllRequests :
        \/ \E k \in ConcRoutes, headers \in RawHeaders :
              \E params \in RawParams(stack[k].path) :
                 Dispatch(r, k, headers, params, EmptyObject, UserExtra)
        \/ \E eh \in ConcErrorHandlerBehaviours : RequestValidator(r, eh)
        \/ ResponseValidator(r)
        \/ HandlerEnter(r)
        \/ HandlerStatus(r, 404)
        \/ \E body \in {UserExtra, MessageBody} : HandlerJsonUpTo(r, body, 1)
        \/ HandlerNext(r)
        \/ HandlerReturn(r)
        \/ RouteEnd(r)

SpecConc == InitConc /\ [][NextConc]_vars

---------------------------------------------------------------------------
(* Calls on an ExZodOsClient *)

\* client.get/post/put/patch/delete(path, config?): builds the axios config
\* and hands it to this.axios.request
ClientRequest(method, path, cfg) ==
    /\ client.phase = "idle"
    /\ client' = [client EXCEPT !.phase = "sent", !.method = method, !.path = path,
                                !.config = cfg,
                                !.axiosConfig = buildAxiosConfig(method, path, cfg)]
    /\ UNCHANGED <<config, stack, calls, req, res, pc, idx, trace>>

\* The server answers with a 2xx status: the call's promise resolves
AxiosResolves ==
    /\ client.phase = "sent"
    /\ client' = [client EXCEPT !.phase = "done"]
    /\ UNCHANGED <<config, stack, calls, req, res, pc, idx, trace>>

\* The server answers with an error status: axios rejects with an AxiosError
\* that carries the request's config and the response
AxiosRejects(status) ==
    /\ client.phase = "sent"
    /\ client' = [client EXCEPT !.phase = "failed",
                                !.err = AxiosError(client.axiosConfig, TRUE, status)]
    /\ UNCHANGED <<config, stack, calls, req, res, pc, idx, trace>>

\* No answer arrives (network error, timeout): an AxiosError without response
AxiosRejectsWithoutResponse ==
    /\ client.phase = "sent"
    /\ client' = [client EXCEPT !.phase = "failed",
                                !.err = AxiosError(client.axiosConfig, FALSE, 0)]
    /\ UNCHANGED <<config, stack, calls, req, res, pc, idx, trace>>

\* The caller's try block catches some other value
OtherErrorCaught(err) ==
    /\ client.phase = "sent"
    /\ client' = [client EXCEPT !.phase = "failed", !.err = err]
    /\ UNCHANGED <<config, stack, calls, req, res, pc, idx, trace>>

\* The caller's catch block asks client.isErrorOf(err, method, path, code)
ClientIsErrorOf(method, path, code) ==
    /\ client.phase = "failed"
    /\ client' = [client EXCEPT !.phase = "checked", !.check =
           [made |-> TRUE, method |-> method, path |-> path, code |-> code,
            result |-> isErrorOf(client.err, method, path, code)]]
    /\ UNCHANGED <<config, stack, calls, req, res, pc, idx, trace>>

NextClient ==
    \/ \E method \in Methods, path \in ClientPaths, cfg \in ClientConfigs :
          ClientRequest(method, path, cfg)
    \/ AxiosResolves
    \/ \E status \in ErrorStatuses : AxiosRejects(status)
    \/ AxiosRejectsWithoutResponse
    \/ \E err \in OtherErrors : OtherErrorCaught(err)
    \/ \E method \in Methods, path \in ClientPaths, code \in ErrorStatuses :
          ClientIsErrorOf(method, path, code)

\* A client next to a freshly constructed router
InitClient ==
    /\ InitReg
    /\ config = [attachResponseValidator |-> TRUE, skipRequestBodyValidation |-> FALSE]

SpecClient == InitClient /\ [][NextClient]_vars

---------------------------------------------------------------------------
(* Properties *)

Started(r) == pc[r] # "idle"
RouteOf(r) == stack[req[r].route]
\* The Route Table's entry for the route the request was matched to
TableEntry(r) == apiDef(RouteOf(r).path, RouteOf(r).method)
OnTableRoute(r) == Started(r) /\ TableEntry(r).defined
OnPassThroughRoute(r) == Started(r) /\ ~TableEntry(r).defined
Emits(r) == {trace[r].emits[i] : i \in 1..Len(trace[r].emits)}
HandlerEmits(r) == {e \in Emits(r) : e.by = "handler"}
\* The schema the Route Table registers for the status code current at the emit
SchemaAt(r, e) == TableEntry(r).response[ToPropertyKey(e.statusCode)]
ViolatesSchema(r, e) == SchemaAt(r, e) # NoSchema /\ ~Parse(SchemaAt(r, e), e.body).ok

\* C1: with attachResponseValidator set, on a table route, a handler's emit of
\* a body that fails the schema registered for the current status code sends
\* exactly one response: status 500 with the fixed error body.
C1_ViolationBecomesFixed500 ==
    \A r \in AllRequests :
        (OnTableRoute(r) /\ config.attachResponseValidator) =>
            \A e \in HandlerEmits(r) :
                ViolatesSchema(r, e) =>
                    /\ e.sent = <<[status |-> 500, body |-> ErrorBody]>>
                    /\ e.statusAfter = 500
                    /\ ~e.threw

C1_Witness ==
    \E r \in AllRequests :
        /\ OnTableRoute(r) /\ config.attachResponseValidator
        /\ \E e \in HandlerEmits(r) :
              ViolatesSchema(r, e) /\ e.statusCode = 404 /\ e.body = UserExtra

\* C2: with attachResponseValidator set, on a table route, every response
\* sent by a json call (a handler's, the errorHandler's, or the substituted
\* 500) satisfies the schema registered for the status code it is sent with.
C2_EverySentBodySatisfiesItsSchema ==
    \A r \in AllRequests :
        (OnTableRoute(r) /\ config.attachResponseValidator) =>
            \A e \in Emits(r) : \A i \in 1..Len(e.sent) :
                LET schema == TableEntry(r).response[ToPropertyKey(e.sent[i].status)]
                IN  schema # NoSchema => Parse(schema, e.sent[i].body).ok

\* C3: with attachResponseValidator set, a handler's emit while the current
\* status code has no registered schema sends the original body with the
\* status code unchanged, whatever the route's default schema.
C3_UnregisteredStatusPassesThrough ==
    \A r \in AllRequests :
        (OnTableRoute(r) /\ config.attachResponseValidator) =>
            \A e \in HandlerEmits(r) :
                SchemaAt(r, e) = NoSchema =>
                    /\ e.sent = <<[status |-> e.statusCode, body |-> e.body]>>
                    /\ e.statusAfter = e.statusCode

\* The part of the above that the code keeps: when express's own res.json
\* accepts the body, a status code without a registered schema passes the
\* body through, and the default schema plays no part.
UnregisteredStatusPassesSerializableBody ==
    \A r \in AllRequests :
        (OnTableRoute(r) /\ config.attachResponseValidator) =>
            \A e \in HandlerEmits(r) :
                (SchemaAt(r, e) = NoSchema /\ Serializable(e.body)) =>
                    /\ e.sent = <<[status |-> e.statusCode, body |-> e.body]>>
                    /\ e.statusAfter = e.statusCode

\* C4: with attachResponseValidator set, a handler's emit of a body that the
\* schema registered for the current status code parses sends the parsed
\* output with the status code unchanged. Stated here only for bodies and
\* parsed outputs that JSON.stringify accepts.
C4_ParsedOutputIsSent ==
    \A r \in AllRequests :
        (OnTableRoute(r) /\ config.attachResponseValidator) =>
            \A e \in HandlerEmits(r) :
                (/\ SchemaAt(r, e) # NoSchema
                 /\ Parse(SchemaAt(r, e), e.body).ok
                 /\ Serializable(e.body)
                 /\ Serializable(Parse(SchemaAt(r, e), e.body).out)) =>
                    /\ e.sent = <<[status |-> e.statusCode,
                                   body |-> Parse(SchemaAt(r, e), e.body).out]>>
                    /\ e.statusAfter = e.statusCode


\* The check the two-branch policy applies to each slot of a raw request
PathCheck(rd, rq) ==
    IF rd.request.path # NoSchema THEN Parse(rd.request.path, rq.params)
    ELSE ParseEmptyObject(rq.params)
QueryCheck(rd, rq) ==
    IF rd.request.query # NoSchema THEN Parse(rd.request.query, rq.query)
    ELSE ParseEmptyObject(rq.query)
BodyCheck(rd, rq) ==
    IF rd.request.body # NoSchema THEN Parse(rd.request.body, rq.body)
    ELSE ParseOptionalEmptyObject(rq.body)
ValidatorRan(r) == Started(r) /\ trace[r].ran # << >> /\ trace[r].ran[1] = "requestValidator"
Observations(r) == {trace[r].observed[i] : i \in 1..Len(trace[r].observed)}
HasKeys(v) == IsObject(v) /\ Len(v[2]) >= 1

\* C5 as claimed: on a table route, a request whose path, query and body all
\* pass is given the parsed path, query and body, next() is called exactly
\* once, errorHandler never, and every user handler observes the parsed values.
C5_AllThreeSlotsReplaced ==
    \A r \in AllRequests :
        LET rd == TableEntry(r)
            raw == trace[r].raw
        IN  (/\ OnTableRoute(r) /\ ValidatorRan(r)
             /\ PathCheck(rd, raw).ok /\ QueryCheck(rd, raw).ok /\ BodyCheck(rd, raw).ok) =>
                /\ trace[r].nextCalls = 1
                /\ trace[r].errorHandlerCalls = 0
                /\ req[r].params = PathCheck(rd, raw).out
                /\ req[r].query = QueryCheck(rd, raw).out
                /\ req[r].body = BodyCheck(rd, raw).out
                /\ \A o \in Observations(r) :
                      o = [params |-> PathCheck(rd, raw).out, query |-> QueryCheck(rd, raw).out,
                           body |-> BodyCheck(rd, raw).out]

\* C5 amended: on a table route, a request whose path and query pass, and
\* whose body passes unless skipRequestBodyValidation is set, is given the
\* parsed path and query, and the parsed body unless skipRequestBodyValidation
\* is set (then the body stays as received); next() is called exactly once,
\* errorHandler never, and every user handler observes exactly these values.
C5_CheckedSlotsReplaced ==
    \A r \in AllRequests :
        LET rd == TableEntry(r)
            raw == trace[r].raw
            body == IF config.skipRequestBodyValidation THEN Ok(raw.body)
                    ELSE BodyCheck(rd, raw)
        IN  (/\ OnTableRoute(r) /\ ValidatorRan(r)
             /\ PathCheck(rd, raw).ok /\ QueryCheck(rd, raw).ok /\ body.ok) =>
                /\ trace[r].nextCalls = 1
                /\ trace[r].errorHandlerCalls = 0
                /\ req[r].params = PathCheck(rd, raw).out
                /\ req[r].query = QueryCheck(rd, raw).out
                /\ req[r].body = body.out
                /\ \A o \in Observations(r) :
                      o = [params |-> PathCheck(rd, raw).out, query |-> QueryCheck(rd, raw).out,
                           body |-> body.out]

C5_Witness ==
    \E r \in AllRequests :
        /\ OnTableRoute(r) /\ ValidatorRan(r)
        /\ ~config.skipRequestBodyValidation
        /\ TableEntry(r).request.body = "User" /\ TableEntry(r).request.query = "Any"
        /\ trace[r].raw.body = UserExtra /\ req[r].body # UserExtra
        /\ trace[r].raw.query # EmptyObject
        /\ req[r].params # trace[r].raw.params
        /\ Len(trace[r].observed) = 2

\* C6: on a table route, when the parse of a checked slot (path, query, or
\* body unless skipped) fails, the request validator calls errorHandler
\* exactly once, never next(), and nothing after it runs for the request.
C6_FailureStopsAtErrorHandler ==
    \A r \in AllRequests :
        LET rd == TableEntry(r)
            raw == trace[r].raw
        IN  (/\ OnTableRoute(r) /\ ValidatorRan(r)
             /\ \/ ~PathCheck(rd, raw).ok
                \/ ~QueryCheck(rd, raw).ok
                \/ ~config.skipRequestBodyValidation /\ ~BodyCheck(rd, raw).ok) =>
                /\ trace[r].errorHandlerCalls = 1
                /\ trace[r].nextCalls = 0
                /\ trace[r].ran = <<"requestValidator">>
                /\ trace[r].observed = << >>
                /\ res[r].json = << >>
                /\ \A e \in Emits(r) : e.by = "errorHandler"
                /\ pc[r] = "done"

C6_Witness ==
    \E r \in AllRequests :
        /\ OnTableRoute(r) /\ ValidatorRan(r)
        /\ PathCheck(TableEntry(r), trace[r].raw).ok
        /\ ~QueryCheck(TableEntry(r), trace[r].raw).ok
        /\ trace[r].errorHandlerCalls = 1
        /\ Len(trace[r].emits) = 1

\* C7: on a table route that declares no path schema (no query schema), a
\* request whose path parameters (query) carry at least one key is rejected:
\* errorHandler is called and next() is not.
C7_UndeclaredSlotMustBeEmpty ==
    \A r \in AllRequests :
        LET rd == TableEntry(r)
            raw == trace[r].raw
        IN  (/\ OnTableRoute(r) /\ ValidatorRan(r)
             /\ \/ rd.request.path = NoSchema /\ HasKeys(raw.params)
                \/ rd.request.query = NoSchema /\ HasKeys(raw.query)) =>
                /\ trace[r].errorHandlerCalls = 1
                /\ trace[r].nextCalls = 0

RECURSIVE IsPrefix(_, _)
IsPrefix(s, t) ==
    s = << >> \/ (t # << >> /\ s[1] = t[1] /\ IsPrefix(Tail(s), Tail(t)))

\* C8: a registration whose (path, verb) the Route Table does not describe
\* hands the underlying router exactly the user's handlers in their order;
\* a request on it parses nothing and never calls errorHandler, its handlers
\* observe the raw path parameters, query and body, and what they emit is
\* what express's own res.json does with it.
C8_PassThrough ==
    /\ \A k \in 1..Len(stack) :
          ~apiDef(calls[k].path, calls[k].method).defined =>
              stack[k] = [method |-> calls[k].method, path |-> calls[k].path,
                          handlers |-> [i \in 1..Len(calls[k].handlers) |->
                                           UserHandler(calls[k].handlers[i])]]
    /\ \A r \in AllRequests :
          OnPassThroughRoute(r) =>
              /\ trace[r].applied = << >>
              /\ trace[r].errorHandlerCalls = 0
              /\ res[r].json = << >>
              /\ IsPrefix(trace[r].ran, calls[req[r].route].handlers)
              /\ req[r] = trace[r].raw
              /\ \A o \in Observations(r) :
                    o = [params |-> trace[r].raw.params, query |-> trace[r].raw.query,
                         body |-> trace[r].raw.body]
              /\ \A e \in Emits(r) :
                    /\ e.by = "handler" /\ e.overrides = 0
                    /\ e.statusAfter = e.statusCode
                    /\ e.sent = IF Serializable(e.body)
                                THEN <<[status |-> e.statusCode, body |-> e.body]>>
                                ELSE << >>

C8_Witness ==
    \E r \in AllRequests :
        /\ OnPassThroughRoute(r)
        /\ RouteOf(r).path = "/users/:id"
        /\ trace[r].raw.params = Obj(<< <<"id", Str("abc")>> >>)
        /\ trace[r].raw.body = <<"string", "abc">>
        /\ trace[r].ran = <<"h1", "h2">>
        /\ \E e \in Emits(r) : e.statusCode = 404 /\ e.body = UserExtra /\ e.sent # << >>

---------------------------------------------------------------------------
(* Properties of the client *)

RECURSIVE NameLen(_)
\* The length of the placeholder name that s starts with: a name ends at the
\* next "/" or ":" or at the end of the url
NameLen(s) ==
    IF s = << >> \/ Head(s) \in {"/", ":"} THEN 0 ELSE 1 + NameLen(Tail(s))

RECURSIVE EveryPlaceholderReplaced(_, _)
\* The url in which every placeholder token :key whose key is in the path map
\* is replaced by the key's stringified value, and nothing else is changed
EveryPlaceholderReplaced(url, path) ==
    IF url = << >> THEN << >>
    ELSE IF Head(url) = ":"
         THEN LET n == NameLen(Tail(url))
                  name == SubSeq(url, 2, n + 1)
                  rest == SubSeq(url, n + 2, Len(url))
              IN  (IF HasKey(path, name) THEN toString(Get(path, name))
                                         ELSE <<":">> \o name)
                  \o EveryPlaceholderReplaced(rest, path)
         ELSE <<Head(url)>> \o EveryPlaceholderReplaced(Tail(url), path)

BuiltWithPathMap ==
    /\ client.phase # "idle"
    /\ client.config.given
    /\ client.config.path # Undefined
    /\ ~HasKey(client.config.rest, "url")

\* C11: when the config of a client call supplies a path map, the url of the
\* built axios config is the path template with every occurrence of every
\* placeholder :key of the map replaced by the key's stringified value;
\* placeholders without a key and all other text are left as they are.
C11_EveryPlaceholderReplaced ==
    BuiltWithPathMap =>
        client.axiosConfig.url = EveryPlaceholderReplaced(client.path, client.config.path)

\* The part of C11 that the code does deliver: a template in which the
\* placeholder occurs once (/users/:id) is substituted as claimed
SinglePlaceholderReplaced ==
    (BuiltWithPathMap /\ client.path \in {PathUsers, PathUsersId}) =>
        client.axiosConfig.url = EveryPlaceholderReplaced(client.path, client.config.path)

\* The caller classified the error of the client's own request
CheckedOwnError ==
    /\ client.phase = "checked"
    /\ client.err.isAxiosError
    /\ client.err.hasConfig
    /\ ~HasKey(client.config.rest, "url")

\* C12: for the transport error of a request issued with method m on path p
\* (with or without a path map) that was answered with status c,
\* isErrorOf(err, m', p', c') is true exactly when m' = m, p' = p and c' = c;
\* it is false for a value that is not a transport error and for a transport
\* error without response. (Stated for the requests whose url was built as
\* C11 says, so that a violation is one of isErrorOf.)
C12_IsErrorOfExactlyOwnTriple ==
    /\ (CheckedOwnError /\ client.err.hasResponse /\ C11_EveryPlaceholderReplaced) =>
          (client.check.result <=> /\ client.check.method = client.method
                                   /\ client.check.path = client.path
                                   /\ client.check.code = client.err.status)
    /\ (client.phase = "checked" /\ ~(client.err.isAxiosError /\ client.err.hasResponse)) =>
          ~client.check.result

\* The part of C12 that the code does deliver: the equivalence for requests
\* whose url is the path itself, and false for everything that is not a
\* transport error with a response
IsErrorOfExactWithoutSubstitution ==
    /\ (CheckedOwnError /\ client.err.hasResponse /\ client.axiosConfig.url = client.path) =>
          (client.check.result <=> /\ client.check.method = client.method
                                   /\ client.check.path = client.path
                                   /\ client.check.code = client.err.status)
    /\ (client.phase = "checked" /\ ~(client.err.isAxiosError /\ client.err.hasResponse)) =>
          ~client.check.result

---------------------------------------------------------------------------
(* Properties of the request validator, continued *)

Applied(r) == {trace[r].applied[i] : i \in 1..Len(trace[r].applied)}
ReachedNext(r) == OnTableRoute(r) /\ trace[r].nextCalls >= 1

\* The declared schema of a slot was applied to the request's raw value of
\* that slot, and accepted it
DeclaredSlotChecked(r, slot, schema, raw) ==
    schema # NoSchema => (slot \in Applied(r) /\ Parse(schema, raw).ok)

\* C13: on a table route, under every config, the next stage is reached only
\* after every declared schema among path, query and body has been applied
\* to its part of the request (and has accepted it).
C13_EveryDeclaredSlotChecked ==
    \A r \in AllRequests :
        ReachedNext(r) =>
            /\ DeclaredSlotChecked(r, "path", TableEntry(r).request.path, trace[r].raw.params)
            /\ DeclaredSlotChecked(r, "query", TableEntry(r).request.query, trace[r].raw.query)
            /\ DeclaredSlotChecked(r, "body", TableEntry(r).request.body, trace[r].raw.body)

\* C13 as amended: the same, with the body schema applied unless
\* skipRequestBodyValidation is set.
C13_DeclaredSlotsCheckedUnlessSkipped ==
    \A r \in AllRequests :
        ReachedNext(r) =>
            /\ DeclaredSlotChecked(r, "path", TableEntry(r).request.path, trace[r].raw.params)
            /\ DeclaredSlotChecked(r, "query", TableEntry(r).request.query, trace[r].raw.query)
            /\ ~config.skipRequestBodyValidation =>
                  DeclaredSlotChecked(r, "body", TableEntry(r).request.body, trace[r].raw.body)

\* A request on a route that declares all three slots reaches the handlers
C13_Witness ==
    \E r \in AllRequests :
        /\ ReachedNext(r) /\ ~config.skipRequestBodyValidation
        /\ TableEntry(r).request.path # NoSchema
        /\ TableEntry(r).request.query # NoSchema
        /\ TableEntry(r).request.body # NoSchema
        /\ Applied(r) = {"path", "query", "body"}
        /\ trace[r].observed # << >>

\* C14: with skipRequestBodyValidation set the request validator never parses
\* the body: the body stays as received and is what the handlers observe, the
\* errorHandler is called exactly when the path or the query check fails
\* (whatever the body and the body schema), and path and query are checked
\* and replaced as without the flag.
C14_SkipLeavesBodyRaw ==
    \A r \in AllRequests :
        (OnTableRoute(r) /\ ValidatorRan(r) /\ config.skipRequestBodyValidation) =>
            LET p == PathCheck(TableEntry(r), trace[r].raw)
                q == QueryCheck(TableEntry(r), trace[r].raw)
            IN  /\ "body" \notin Applied(r)
                /\ req[r].body = trace[r].raw.body
                /\ \A o \in Observations(r) : o.body = trace[r].raw.body
                /\ trace[r].errorHandlerCalls = IF p.ok /\ q.ok THEN 0 ELSE 1
                /\ trace[r].nextCalls = IF p.ok /\ q.ok THEN 1 ELSE 0
                /\ "path" \in Applied(r)
                /\ p.ok => ("query" \in Applied(r) /\ req[r].params = p.out)
                /\ (p.ok /\ q.ok) => req[r].query = q.out

\* A body its declared schema rejects reaches the handlers unparsed, while
\* the path was replaced by its parsed output
C14_Witness ==
    \E r \in AllRequests :
        /\ OnTableRoute(r) /\ ValidatorRan(r) /\ config.skipRequestBodyValidation
        /\ TableEntry(r).request.body # NoSchema
        /\ ~BodyCheck(TableEntry(r), trace[r].raw).ok
        /\ trace[r].nextCalls = 1
        /\ req[r].params # trace[r].raw.params
        /\ \E o \in Observations(r) : o.body = trace[r].raw.body

UndeclaredBodyChecked(r) ==
    /\ OnTableRoute(r) /\ ValidatorRan(r)
    /\ ~config.skipRequestBodyValidation
    /\ TableEntry(r).request.body = NoSchema
    /\ PathCheck(TableEntry(r), trace[r].raw).ok
    /\ QueryCheck(TableEntry(r), trace[r].raw).ok

\* C15: with skipRequestBodyValidation unset and no body schema declared, the
\* request validator calls next() if and only if the body is absent or an
\* empty object; a body with a key or a non-object body goes to errorHandler;
\* an accepted body is left as it was.
C15_UndeclaredBodyMustBeEmpty ==
    \A r \in AllRequests :
        UndeclaredBodyChecked(r) =>
            /\ trace[r].nextCalls = 1 <=> trace[r].raw.body \in {Undefined, EmptyObject}
            /\ trace[r].raw.body \notin {Undefined, EmptyObject} =>
                  trace[r].errorHandlerCalls = 1
            /\ trace[r].nextCalls = 1 => req[r].body = trace[r].raw.body

\* The part of C15 that the code does deliver: absent and empty bodies are
\* accepted and left as they were, a non-object body is rejected
UndeclaredBodyAbsentEmptyOrNonObject ==
    \A r \in AllRequests :
        (UndeclaredBodyChecked(r) /\ ~HasKeys(trace[r].raw.body)) =>
            /\ trace[r].nextCalls = 1 <=> trace[r].raw.body \in {Undefined, EmptyObject}
            /\ trace[r].nextCalls = 0 <=> trace[r].errorHandlerCalls = 1
            /\ trace[r].nextCalls = 1 => req[r].body = trace[r].raw.body

---------------------------------------------------------------------------
(* Properties of the response validator, continued *)

\* The status code current at the i-th res.json call of request r: the last
\* one the handler set since the previous call, else what the previous call
\* left, else express's default
CurrentStatus(r, i) ==
    IF trace[r].emits[i].lastSet # 0 THEN trace[r].emits[i].lastSet
    ELSE IF i = 1 THEN 200
    ELSE trace[r].emits[i - 1].statusAfter

\* The emit e was checked against the schema (possibly none) and sent
\* accordingly
CheckedAgainst(e, schema, status) ==
    /\ e.statusCode = status
    /\ (schema = NoSchema /\ Serializable(e.body)) =>
          e.sent = <<[status |-> status, body |-> e.body]>>
    /\ (schema # NoSchema /\ ~Parse(schema, e.body).ok) =>
          e.sent = <<[status |-> 500, body |-> ErrorBody]>>
    /\ (schema # NoSchema /\ Parse(schema, e.body).ok
        /\ ~IsNullish(Parse(schema, e.body).out)
        /\ Serializable(Parse(schema, e.body).out)) =>
          e.sent = <<[status |-> status, body |-> Parse(schema, e.body).out]>>

\* C17: with the response validator attached, every res.json call of a
\* handler, the first and each later one, is checked against the schema that
\* the route registers for the status code current at that call (the last one
\* set before it), and is not checked when that status code has no schema.
C17_SchemaOfStatusAtEmit ==
    \A r \in AllRequests :
        (OnTableRoute(r) /\ config.attachResponseValidator) =>
            \A i \in 1..Len(trace[r].emits) :
                trace[r].emits[i].by = "handler" =>
                    CheckedAgainst(trace[r].emits[i],
                        TableEntry(r).response[ToPropertyKey(CurrentStatus(r, i))],
                        CurrentStatus(r, i))

\* The same body is emitted twice: under 404, set by the handler, it passes
\* the 404 schema; under 200, set afterwards, it fails the 200 schema
C17_Witness ==
    \E r \in AllRequests :
        /\ OnTableRoute(r) /\ config.attachResponseValidator
        /\ Len(trace[r].emits) = 2
        /\ trace[r].emits[1].by = "handler" /\ trace[r].emits[2].by = "handler"
        /\ trace[r].emits[1].lastSet = 404
        /\ trace[r].emits[1].sent = <<[status |-> 404, body |-> MessageBody]>>
        /\ trace[r].emits[2].lastSet = 200
        /\ trace[r].emits[2].body = MessageBody
        /\ trace[r].emits[2].sent = <<[status |-> 500, body |-> ErrorBody]>>

\* errorHandler is called at most once, by the request validator, before any
\* user handler has run; a request whose handler emitted has not called it
ErrorHandlerOnlyFromRequestValidator(r) ==
    /\ trace[r].errorHandlerCalls <= 1
    /\ trace[r].errorHandlerCalls = 1 =>
          (trace[r].ran = <<"requestValidator">> /\ trace[r].observed = << >>)
    /\ HandlerEmits(r) # {} => trace[r].errorHandlerCalls = 0

\* C18: on a table route, under every config, errorHandler is called at most
\* once and only by the request validator before any user handler has run, and
\* no res.json call of a handler, whatever its body and status, leads to an
\* errorHandler call or throws.
C18_EmitNeverThrows ==
    \A r \in AllRequests :
        OnTableRoute(r) =>
            /\ ErrorHandlerOnlyFromRequestValidator(r)
            /\ \A e \in HandlerEmits(r) : ~e.threw

\* C18 as amended: the same, with "no res.json call of a handler throws"
\* stated for routers that attach the response validator.
C18_EmitNeverThrowsWhenAttached ==
    \A r \in AllRequests :
        OnTableRoute(r) =>
            /\ ErrorHandlerOnlyFromRequestValidator(r)
            /\ config.attachResponseValidator => \A e \in HandlerEmits(r) : ~e.threw

\* A handler emits a body that fails its schema and cannot be serialized
\* either; the call returns, the fixed 500 is sent, errorHandler is not called
C18_Witness ==
    \E r \in AllRequests :
        /\ OnTableRoute(r) /\ config.attachResponseValidator
        /\ trace[r].errorHandlerCalls = 0
        /\ \E e \in HandlerEmits(r) :
              /\ ViolatesSchema(r, e) /\ ~Serializable(e.body)
              /\ ~e.threw
              /\ e.sent = <<[status |-> 500, body |-> ErrorBody]>>

---------------------------------------------------------------------------
(* Properties of the request validator: the response on failure *)

\* C19: on a table route, when request validation fails, the validator itself
\* emits nothing and leaves the response as it was: every emit of the request
\* is the errorHandler's, sent as the errorHandler gave it, the status code is
\* the default unless the errorHandler emitted, and when the errorHandler
\* emits nothing the request has no emit at all.
C19_OnlyErrorHandlerResponds ==
    \A r \in AllRequests :
        (OnTableRoute(r) /\ trace[r].errorHandlerCalls >= 1) =>
            /\ Len(trace[r].emits) <= 1
            /\ res[r].json = << >>
            /\ \A e \in Emits(r) :
                  /\ e.by = "errorHandler" /\ e.overrides = 0
                  /\ Serializable(e.body) =>
                        e.sent = <<[status |-> e.statusCode, body |-> e.body]>>
                  /\ res[r].statusCode = e.statusAfter
            /\ trace[r].emits = << >> => res[r].statusCode = 200
            /\ pc[r] = "done"

\* Validation failed, the errorHandler emitted nothing, the request is over
\* without a response
C19_Witness ==
    \E r \in AllRequests :
        /\ OnTableRoute(r) /\ trace[r].errorHandlerCalls = 1
        /\ trace[r].emits = << >>
        /\ res[r] = IdleRes
        /\ pc[r] = "done"

---------------------------------------------------------------------------
(* Properties over two requests *)

SameRouteAndInputsButHeaders(a, b) ==
    /\ OnTableRoute(a) /\ ValidatorRan(a)
    /\ OnTableRoute(b) /\ ValidatorRan(b)
    /\ req[a].route = req[b].route
    /\ trace[a].raw.params = trace[b].raw.params
    /\ trace[a].raw.query = trace[b].raw.query
    /\ trace[a].raw.body = trace[b].raw.body

\* C16: header schemas are not enforced: two requests to the same table route
\* that differ only in their headers get the same outcome from the request
\* validator (next or errorHandler, the slots checked, the replaced path,
\* query and body), whatever header schema the route declares, and a
\* request's headers are never modified.
C16_HeadersNeverEnforced ==
    /\ \A r \in AllRequests : Started(r) => req[r].headers = trace[r].raw.headers
    /\ \A a, b \in AllRequests :
          SameRouteAndInputsButHeaders(a, b) =>
              /\ trace[a].nextCalls = trace[b].nextCalls
              /\ trace[a].errorHandlerCalls = trace[b].errorHandlerCalls
              /\ trace[a].applied = trace[b].applied
              /\ req[a].params = req[b].params
              /\ req[a].query = req[b].query
              /\ req[a].body = req[b].body

\* Two requests to a route that declares a header schema, one with headers
\* the schema accepts and one with headers it rejects, are both passed on
C16_Witness ==
    \E a, b \in AllRequests :
        /\ SameRouteAndInputsButHeaders(a, b)
        /\ TableEntry(a).request.header # NoSchema
        /\ Parse(TableEntry(a).request.header, req[a].headers).ok
        /\ ~Parse(TableEntry(b).request.header, req[b].headers).ok
        /\ trace[a].nextCalls = 1 /\ trace[b].nextCalls = 1

\* What the request validator does with request r's own input, taken alone
AloneValidated(r) == RunRequestValidator(TableEntry(r), config, trace[r].raw)
\* The res.json of request r's own route
OwnJson(r) == IF config.attachResponseValidator THEN <<TableEntry(r)>> ELSE << >>

\* Everything observed of request r is what its own input, route and config
\* determine
ProcessedAsAlone(r) ==
    (OnTableRoute(r) /\ ValidatorRan(r)) =>
        /\ req[r] = AloneValidated(r).req
        /\ trace[r].nextCalls = IF AloneValidated(r).next THEN 1 ELSE 0
        /\ trace[r].errorHandlerCalls = IF AloneValidated(r).errorHandler THEN 1 ELSE 0
        /\ \A o \in Observations(r) :
              o = [params |-> AloneValidated(r).req.params,
                   query |-> AloneValidated(r).req.query,
                   body |-> AloneValidated(r).req.body]
        /\ res[r].json \in {<< >>, OwnJson(r)}
        /\ \A e \in Emits(r) :
              LET json == IF e.by = "handler" THEN OwnJson(r) ELSE << >>
                  out == CallJson(json, e.statusCode, e.body)
              IN  /\ e.sent = out.sent
                  /\ e.statusAfter = out.statusCode
                  /\ e.threw = out.threw

\* A step belongs to one request and leaves every other request's req, res
\* and progress alone, and the router (config, registered routes) as it was
IsolatedStep ==
    /\ UNCHANGED <<config, stack, calls>>
    /\ \E r \in AllRequests :
          \A q \in AllRequests \ {r} :
              /\ req'[q] = req[q] /\ res'[q] = res[q]
              /\ pc'[q] = pc[q] /\ idx'[q] = idx[q]
              /\ trace'[q] = trace[q]

\* C20: under every interleaving of the steps of two in-flight requests on
\* the same or different table routes, each request's parsed inputs,
\* errorHandler calls and emitted (status, body) are what that request alone
\* determines; a step of one request (installing the res.json override
\* included) changes nothing of the other request, and no step changes the
\* config or the registered routes.
C20_RequestIsolation ==
    [](\A r \in AllRequests : ProcessedAsAlone(r)) /\ [][IsolatedStep]_vars

\* Two requests in flight on different routes have both emitted the same body
\* under status 404 through their own override: one route's 404 schema
\* rejects it, the other route has no 404 schema and sends it
C20_Witness ==
    \E a, b \in AllRequests :
        /\ OnTableRoute(a) /\ OnTableRoute(b) /\ req[a].route # req[b].route
        /\ config.attachResponseValidator
        /\ pc[a] = "handler" /\ pc[b] = "handler"
        /\ \E e \in HandlerEmits(a) :
              e.body = UserExtra /\ e.sent = <<[status |-> 500, body |-> ErrorBody]>>
        /\ \E e \in HandlerEmits(b) :
              e.body = UserExtra /\ e.sent = <<[status |-> 404, body |-> UserExtra]>>

---------------------------------------------------------------------------
(* Properties of the request validator: the order of the slots *)

\* C21: on a table route, when errorHandler is called because a slot failed,
\* the slots were taken in the order path, query, body up to the failing one:
\* the slots before it hold their parsed outputs, the failing slot and the
\* slots after it hold their raw values, and no schema of a later slot was
\* applied.
C21_SlotsInOrderUntilFirstFailure ==
    \A r \in AllRequests :
        (OnTableRoute(r) /\ trace[r].errorHandlerCalls = 1) =>
            LET p == PathCheck(TableEntry(r), trace[r].raw)
                q == QueryCheck(TableEntry(r), trace[r].raw)
            IN  /\ ~p.ok =>
                      /\ trace[r].applied = <<"path">>
                      /\ req[r] = trace[r].raw
                /\ (p.ok /\ ~q.ok) =>
                      /\ trace[r].applied = <<"path", "query">>
                      /\ req[r] = [trace[r].raw EXCEPT !.params = p.out]
                /\ (p.ok /\ q.ok) =>
                      /\ trace[r].applied = <<"path", "query", "body">>
                      /\ ~BodyCheck(TableEntry(r), trace[r].raw).ok
                      /\ req[r] = [trace[r].raw EXCEPT !.params = p.out, !.query = q.out]

\* The body of a request failed its schema after the path had been replaced
\* by its parsed output
C21_Witness ==
    \E r \in AllRequests :
        /\ OnTableRoute(r) /\ trace[r].errorHandlerCalls = 1
        /\ trace[r].applied = <<"path", "query", "body">>
        /\ req[r].params # trace[r].raw.params
        /\ TableEntry(r).request.body # NoSchema
        /\ req[r].body = trace[r].raw.body

---------------------------------------------------------------------------
(* Properties of the response validator: when the fixed 500 is sent *)

\* The override left the handler's status code alone and did not send the
\* fixed error body
NotOverridden(e) ==
    /\ e.statusAfter = e.statusCode
    /\ \A i \in 1..Len(e.sent) : e.sent[i].body # ErrorBody

\* C22: with the response validator attached, a handler's res.json call whose
\* body does not fail the schema of the current status code (the schema
\* passes, or the status code has none) leaves the status code as the handler
\* set it and does not send the fixed error body, also when the underlying
\* res.json fails.
C22_OverrideOnlyOnSchemaFailure ==
    \A r \in AllRequests :
        (OnTableRoute(r) /\ config.attachResponseValidator) =>
            \A e \in HandlerEmits(r) :
                ~ViolatesSchema(r, e) => NotOverridden(e)

\* The part of C22 that the code does deliver: when the underlying res.json
\* accepts what it is given, only a schema failure leads to the fixed 500
OverrideOnlyOnSchemaFailureWhenEmitSucceeds ==
    \A r \in AllRequests :
        (OnTableRoute(r) /\ config.attachResponseValidator) =>
            \A e \in HandlerEmits(r) :
                LET parsed == IF SchemaAt(r, e) # NoSchema
                              THEN Parse(SchemaAt(r, e), e.body).out ELSE Undefined
                    given == IF IsNullish(parsed) THEN e.body ELSE parsed
                IN  (~ViolatesSchema(r, e) /\ Serializable(given)) => NotOverridden(e)

==========================================================================
